---- MODULE Spec2Model ----
(***************************************************************************)
(* Polyvuvu: the scan orchestrator (main.py), the paper-trading ledger     *)
(* (portfolio.py), the analyzer boundary (analysis/gemini_analyzer.py)     *)
(* and the notification collaborators, as one state machine.               *)
(*                                                                         *)
(* Prices are integer percentages (0.35 is 35, the 0.5 fallback is 50).    *)
(* Python's None is the string "None".                                     *)
(***************************************************************************)
EXTENDS Integers, Sequences, FiniteSets, TLC

VARIABLES
    ledger,        \* portfolio.json: the sequence of Trade records
    call,          \* the last add_trade call: its arguments, the ledger before it, its outcome
    pc,            \* position of the process: "idle", or a position inside analyze_and_alert
    scan,          \* how the last run_scan ended, or "running"
    args,          \* the process: run_scan's arguments and the analyzer back-end
    markets,       \* analyze_and_alert: the batch
    i,             \* analyze_and_alert: loop index (1-based)
    alerts_sent,   \* analyze_and_alert: the counter it returns
    moltbook_post, \* analyze_and_alert: TRUE when the local moltbook_post is bound
    moltbook_dm,   \* analyze_and_alert: TRUE when the local moltbook_dm is bound
    analysis,      \* the EdgeAnalysis of the current market, or NoAnalysis
    ledger0,       \* the ledger when the current run started
    events,        \* what the current run did, in order
    sched,         \* run_scheduler: "once" when the process runs without it, else its position
    due,           \* run_scheduler: whole intervals elapsed since the job was last scheduled
    active,        \* run_scheduler: run_scan invocations that have not returned
    hb,            \* heartbeat.json
    now,           \* the wall clock, in hours
    beat,          \* the last heartbeat call: its kind, what it read and what it did
    polls,         \* the times of the last two Moltbook pollings
    store,         \* portfolio.json: "missing", "invalid" (not JSON) or "list"; ledger is its list
    config,        \* the configuration keys the environment sets
    summary,       \* the last get_performance_summary call and the dict it returned
    feed,          \* the items of the last /markets response
    procs,         \* two processes calling add_trade: position and loaded copy of each
    written,       \* the trades those processes have saved
    response,      \* the model reply given to the last direct analyze_market call
    bars           \* the confidence bars rendered for the last score

schedvars == <<sched, due, active>>

hbvars == <<hb, now, beat, polls>>

\* what only the single-function processes below use
auxvars == <<config, summary, feed, procs, written, response, bars>>

vars == <<ledger, call, pc, scan, args, markets, i, alerts_sent, moltbook_post,
          moltbook_dm, analysis, ledger0, events, schedvars, auxvars, hbvars, store, auxvars>>

----------------------------------------------------------------------------
(* Bounds *)

MaxBatch == 2

\* the longest batch a scan started by run_scheduler fetches
MaxSchedBatch == 1

\* how many whole intervals the scheduler's clock is followed past a scheduling
MaxIntervals == 2

\* the wall clock (hours) when the heartbeat process starts, and where it is cut off
StartClock == 4

MaxClock == 9

\* the largest magnitude of a confidence score the model answers with
ScoreSpan == 12

\* the most add_trade calls one process makes
MaxCalls == 1

\* the most items a /markets response holds
MaxFeed == 2

\* the longest ledger whose summary is taken
MaxTrades == 3

(* Program constants *)

MIN_CONFIDENCE_THRESHOLD == 7
DefaultEntryPrice == 50
DefaultConfidence == 5
FailureConfidence == 1
MinConfidence == 1
MaxConfidence == 10

\* the segments of a confidence bar, and the score points one segment stands for
BarSegments == 5
PointsPerSegment == 2
HeartbeatInterval == 4

None == "None"

----------------------------------------------------------------------------
(* Market (polymarket/fetcher.py).  prices_type is the Python type of      *)
(* outcome_prices: the dataclass and the fetcher make it a list; the       *)
(* ledger's own comment expects a dict keyed by outcome name.              *)

MarketIds == {"m1", "m2"}

\* the question of a listing: text, or null for "m2" ("question": null in the feed)
Questions(id) == IF id = "m2" THEN {"q", None} ELSE {"q"}

PricesOf(id) == IF id = "m1" THEN <<35, 65>> ELSE <<80, 20>>

Market(id, question, ptype) ==
    [id |-> id, question |-> question, outcomes |-> <<"Yes", "No">>,
     outcome_prices |-> PricesOf(id), prices_type |-> ptype]

AllMarkets ==
    UNION {{Market(id, q, t) : q \in Questions(id), t \in {"list", "dict"}} : id \in MarketIds}

\* what get_active_markets can return: every Market it builds holds lists
FetchedMarkets == {m \in AllMarkets : m.prices_type = "list"}

SeqsUpTo(S, n) == UNION {[1..k -> S] : k \in 0..n}

\* a recommended position: an outcome name, a name that is no outcome, or null
Positions == {"Yes", "No", "Maybe", None}

----------------------------------------------------------------------------
(* Ledger (portfolio.py) *)

HasOpenTrade_NoCheck(trades, id) == FALSE

\* add_trade line 48
HasOpenTrade(trades, id) ==
    \E k \in 1..Len(trades) : trades[k].id = id /\ trades[k].status = "open"

OpenCount(trades, id) ==
    Cardinality({k \in 1..Len(trades) : trades[k].id = id /\ trades[k].status = "open"})

\* dict.get(position, 0.5) on a mapping outcome name -> price
DictGet(market, position) ==
    IF \E k \in 1..Len(market.outcomes) : market.outcomes[k] = position
    THEN market.outcome_prices[CHOOSE k \in 1..Len(market.outcomes) : market.outcomes[k] = position]
    ELSE DefaultEntryPrice

\* a float field that may hold None
Null == [null |-> TRUE, v |-> 0]

Float(v) == [null |-> FALSE, v |-> v]

NewTrade_Resolved(market, position, confidence) ==
    [id |-> market.id, question |-> market.question, position |-> position,
     entry_price |-> DictGet(market, position), confidence |-> confidence,
     status |-> "won", exit_price |-> Float(100), pnl |-> Null, resolved_date |-> None]

\* add_trade lines 55-66
NewTrade(market, position, confidence) ==
    [id |-> market.id, question |-> market.question, position |-> position,
     entry_price |-> DictGet(market, position), confidence |-> confidence,
     status |-> "open", exit_price |-> Null, pnl |-> Null, resolved_date |-> None]

Appended_Reopening(trades, t) ==
    Append([k \in 1..Len(trades) |-> [trades[k] EXCEPT !.status = "open"]], t)

\* add_trade line 68: trades.append(trade)
Appended(trades, t) == Append(trades, t)

\* _load_portfolio: the list in the file, [] when it is missing or cannot be parsed
load_portfolio(kind, trades) == IF kind = "list" THEN trades ELSE <<>>

add_trade_Swallows(trades, market, position, confidence) ==
    [trades |-> trades, exc |-> "none", added |-> FALSE]

\* add_trade: the ledger it leaves and how it ends
\*   exc = "none": returned; otherwise the exception that leaves the call
add_trade(trades, market, position, confidence) ==
    IF HasOpenTrade(trades, market.id)
    THEN [trades |-> trades, exc |-> "none", added |-> FALSE]
    ELSE IF market.prices_type = "list"
    THEN \* line 53: a list has no .get
         [trades |-> trades, exc |-> "AttributeError", added |-> FALSE]
    ELSE IF market.question = None
    THEN \* line 70: market.question[:30] after the save
         [trades |-> Appended(trades, NewTrade(market, position, confidence)),
          exc |-> "TypeError", added |-> TRUE]
    ELSE [trades |-> Appended(trades, NewTrade(market, position, confidence)),
          exc |-> "none", added |-> TRUE]

NoCall == [market |-> Market("m1", "q", "list"), position |-> None, confidence |-> 0,
           before |-> <<>>, exc |-> "nocall", added |-> FALSE]

CallRecord(trades, market, position, confidence) ==
    LET r == add_trade(trades, market, position, confidence)
    IN  [market |-> market, position |-> position, confidence |-> confidence,
         before |-> trades, exc |-> r.exc, added |-> r.added]

----------------------------------------------------------------------------
(* Analyzer (analysis/gemini_analyzer.py) *)

Backends == {"openrouter", "gemini"}

\* the "confidence_score" member of the JSON the model answered with: absent, null,
\* a non-numeric string, or a number (one below the threshold, and the threshold)
ScoreInputs ==
    {[kind |-> "null", val |-> 0], [kind |-> "text", val |-> 0]}
    \cup {[kind |-> "int", val |-> v] :
            v \in {MIN_CONFIDENCE_THRESHOLD - 1, MIN_CONFIDENCE_THRESHOLD}}

FailureKinds ==
    {"network_error", "http_error", "body_not_json", "no_choices_key", "empty_choices",
     "content_not_json"}

FailureResponses ==
    {[kind |-> k, score |-> [kind |-> "missing", val |-> 0], has_edge |-> FALSE, position |-> None]
        : k \in FailureKinds}

JsonResponses ==
    {[kind |-> "json", score |-> s, has_edge |-> e, position |-> p]
        : s \in ScoreInputs, e \in BOOLEAN, p \in {"Yes", None}}

Responses == FailureResponses \cup JsonResponses

Max(a, b) == IF a >= b THEN a ELSE b

Min(a, b) == IF a <= b THEN a ELSE b

Clamp_Unbounded(n) == n

\* min(10, max(1, ...))
Clamp(n) == Min(MaxConfidence, Max(MinConfidence, n))

\* int(x) where it returns: an int as it is, a float (held in tenths) truncated
\* toward zero, a string of digits as the number it spells
ToInt(score) ==
    IF score.kind = "float"
    THEN IF score.val >= 0 THEN score.val \div 10 ELSE -((-score.val) \div 10)
    ELSE score.val

\* the exception the try body raises on this response, "none" when it completes
\*   openrouter: requests.post / raise_for_status, response.json(), ["choices"][0],
\*               json.loads, int(...)
\*   gemini:     generate_content, response.text, json.loads, int(...)
RaisedInTry(backend, resp) ==
    CASE resp.kind \in {"network_error", "http_error"} ->
            IF backend = "openrouter" THEN "RequestException" ELSE "GoogleAPIError"
      [] resp.kind = "body_not_json" ->
            IF backend = "openrouter" THEN "JSONDecodeError" ELSE "GoogleAPIError"
      [] resp.kind = "no_choices_key" ->
            IF backend = "openrouter" THEN "KeyError" ELSE "ValueError"
      [] resp.kind = "empty_choices" ->
            IF backend = "openrouter" THEN "IndexError" ELSE "ValueError"
      [] resp.kind = "content_not_json" -> "JSONDecodeError"
      [] resp.kind = "json" /\ resp.score.kind = "null" -> "TypeError"
      [] resp.kind = "json" /\ resp.score.kind = "text" -> "ValueError"
      [] resp.kind = "json" /\ resp.score.kind = "nan" -> "ValueError"
      [] resp.kind = "json" /\ resp.score.kind = "inf" -> "OverflowError"
      [] OTHER -> "none"

\* the except clauses of the two analyze_market methods
HandledByAnalyzer(backend) ==
    IF backend = "openrouter"
    THEN {"JSONDecodeError", "KeyError", "TypeError", "RequestException"}
    ELSE {"JSONDecodeError", "KeyError", "TypeError"}

NoAnalysis == [confidence_score |-> 0, has_edge |-> FALSE, recommended_position |-> None,
               synthetic |-> FALSE]

SyntheticAnalysis ==
    [confidence_score |-> FailureConfidence, has_edge |-> FALSE, recommended_position |-> None,
     synthetic |-> TRUE]

ParsedAnalysis(resp) ==
    [confidence_score |->
        Clamp(IF resp.score.kind = "missing" THEN DefaultConfidence ELSE ToInt(resp.score)),
     has_edge |-> resp.has_edge,
     recommended_position |-> resp.position,
     synthetic |-> FALSE]

\* analyze_market: the EdgeAnalysis it returns, or the exception that leaves it
analyze_market(backend, resp) ==
    LET raised == RaisedInTry(backend, resp)
    IN  IF raised = "none" THEN [exc |-> "none", analysis |-> ParsedAnalysis(resp)]
        ELSE IF raised \in HandledByAnalyzer(backend)
        THEN [exc |-> "none", analysis |-> SyntheticAnalysis]
        ELSE [exc |-> raised, analysis |-> NoAnalysis]

----------------------------------------------------------------------------
(* Orchestrator (main.py) *)

AlertWorthy_IgnoresEdge(a) == a.confidence_score >= MIN_CONFIDENCE_THRESHOLD

\* analyze_and_alert line 71
AlertWorthy(a) == a.has_edge /\ a.confidence_score >= MIN_CONFIDENCE_THRESHOLD

\* analyze_and_alert line 112: except Exception
LoopCatches(exc) ==
    exc \in {"AttributeError", "TypeError", "ValueError", "IndexError", "KeyError",
             "JSONDecodeError", "RequestException", "GoogleAPIError"}

CountAlert_Always(n, ok) == n + 1

\* analyze_and_alert lines 92-93
CountAlert(n, ok) == IF ok THEN n + 1 ELSE n

AfterRecord_NoPeer(peer) == "telegram"

\* analyze_and_alert lines 76-79: after add_trade returned, the DM when a peer is set
AfterRecord(peer) == IF peer THEN "dm" ELSE "telegram"

AfterDm_FailureRaises(ok) == IF ok THEN "telegram" ELSE "except"

\* analyze_and_alert lines 86-91: the DM's result only guards a print
AfterDm(ok) == "telegram"

AfterTelegram_NoPost(ok, post) == "pause"

\* analyze_and_alert lines 92-98
AfterTelegram(ok, post) == IF post THEN "moltbook" ELSE "pause"

\* run_scan is always called with verbose=True (main.py lines 175, 178, 288)
VerboseValues == {TRUE}

ArgSets ==
    [verbose : VerboseValues, moltbook : BOOLEAN, ask_peer : BOOLEAN, backend : Backends]

Event(op, idx, res) == [op |-> op, idx |-> idx, res |-> res]

\* the analyzer call of market idx and the EdgeAnalysis it produced
AnalyzeEvent(idx, res, a) ==
    [op |-> "analyze", idx |-> idx, res |-> res, has_edge |-> a.has_edge,
     confidence_score |-> a.confidence_score]

----------------------------------------------------------------------------
(* Heartbeat (heartbeat.py).  Times are whole hours.  A stored value is     *)
(* absent, the ISO text of a time, a text that is no ISO time, or a JSON    *)
(* value that is no string.                                                 *)

Tasks == {"moltbook_check", "market_scan"}

Absent == [kind |-> "absent", t |-> 0]

\* datetime.isoformat(); datetime.fromisoformat() gives the same time back
isoformat(t) == [kind |-> "iso", t |-> t]

NotIso == [kind |-> "text", t |-> 0]

NotString == [kind |-> "number", t |-> 0]

NoData == [task \in Tasks |-> Absent]

\* heartbeat.json: missing, not JSON, or a JSON object
MissingFile == [kind |-> "missing", data |-> NoData]

InvalidFile == [kind |-> "invalid", data |-> NoData]

load_heartbeat(file) == IF file.kind = "dict" THEN file.data ELSE NoData

save_heartbeat(data) == [kind |-> "dict", data |-> data]

update_heartbeat_OnlyTask(file, task, t) ==
    save_heartbeat([NoData EXCEPT ![task] = isoformat(t)])

update_heartbeat(file, task, t) ==
    save_heartbeat([load_heartbeat(file) EXCEPT ![task] = isoformat(t)])

\* a float: a number of hours, or float('inf')
Hours(n) == [inf |-> FALSE, h |-> n]

Infinity == [inf |-> TRUE, h |-> 0]

Less_OrEqual(r, n) == ~r.inf /\ r.h <= n

\* r < n
Less(r, n) == ~r.inf /\ r.h < n

time_since_last_Never(file, task, t) == Infinity

time_since_last(file, task, t) ==
    LET data == load_heartbeat(file)
    IN  IF data[task].kind = "absent" THEN Infinity
        ELSE IF data[task].kind = "iso" THEN Hours(t - data[task].t)
        ELSE Infinity

\* run_moltbook_heartbeat lines 162-168: the gate
Due(file, task, t) == ~Less(time_since_last(file, task, t), HeartbeatInterval)

MarkAfterPoll_Skipped(file, t) == file

\* run_moltbook_heartbeat line 183
MarkAfterPoll(file, t) == update_heartbeat(file, "moltbook_check", t)

\* the last two entries of the polling times
LastTwo(ts) == IF Len(ts) <= 2 THEN ts ELSE SubSeq(ts, Len(ts) - 1, Len(ts))

\* the three requests of a polling: check_moltbook_status, check_dm_activity,
\* get_moltbook_feed
CheckNames == {"status", "dm", "feed"}

NoChecks == [n \in CheckNames |-> "none"]

\* how the three checks end: each returns at once without a MOLTBOOK_API_KEY
\* (lines 69, 99, 131), otherwise its request succeeds or its except clause
\* swallows the failure
CheckOutcomes(c) ==
    IF "MOLTBOOK_API_KEY" \notin c THEN {[n \in CheckNames |-> "skipped"]}
    ELSE [CheckNames -> {"ok", "failed"}]

MarksDone_OnSuccess(checks) == \E n \in CheckNames : checks[n] = "ok"

\* run_moltbook_heartbeat line 183 follows the checks unconditionally
MarksDone(checks) == TRUE

NoBeat == [op |-> "none", task |-> "moltbook_check", at |-> 0, before |-> MissingFile,
           hours |-> Infinity, polled |-> FALSE, checks |-> NoChecks]

\* heartbeat.json as earlier processes can have left it at time t
HeartbeatFiles(t) ==
    {MissingFile, InvalidFile}
    \cup {save_heartbeat(d) :
            d \in [Tasks -> {Absent, NotIso, NotString} \cup {isoformat(u) : u \in 0..t}]}

----------------------------------------------------------------------------
(* Configuration (config.py): the keys the environment sets to a non-empty  *)
(* value.  At most one analyzer key is set; with both, OpenRouter is used   *)
(* as with its key alone.                                                   *)

ConfigKeys ==
    {"TELEGRAM_BOT_TOKEN", "TELEGRAM_CHANNEL_ID", "OPENROUTER_API_KEY", "GEMINI_API_KEY"}

AnalyzerKeys == {"OPENROUTER_API_KEY", "GEMINI_API_KEY"}

Configs == {c \in SUBSET ConfigKeys : Cardinality(c \cap AnalyzerKeys) <= 1}

validate_Nothing(c) == {}

\* Config.validate: the names it reports missing
validate(c) ==
    (IF "TELEGRAM_BOT_TOKEN" \notin c THEN {"TELEGRAM_BOT_TOKEN"} ELSE {})
    \cup (IF "TELEGRAM_CHANNEL_ID" \notin c THEN {"TELEGRAM_CHANNEL_ID"} ELSE {})
    \cup (IF "OPENROUTER_API_KEY" \notin c /\ "GEMINI_API_KEY" \notin c
          THEN {"OPENROUTER_API_KEY or GEMINI_API_KEY"} ELSE {})

\* _get_analyzer: OpenRouter when its key is set, else Gemini
SelectedBackend(c) == IF "OPENROUTER_API_KEY" \in c THEN "openrouter" ELSE "gemini"

----------------------------------------------------------------------------
\* a ledger file left by earlier add_trade calls
Recorded(trades, id) ==
    add_trade(trades, Market(id, "q", "dict"), "Yes", MIN_CONFIDENCE_THRESHOLD).trades

RunLedgers ==
    {<<>>, Recorded(<<>>, "m1"), Recorded(<<>>, "m2"), Recorded(Recorded(<<>>, "m1"), "m2")}

Procs == {"cli", "scheduler"}

NoSummary == [called |-> FALSE, ret |-> [total_trades |-> 0]]

NoProc == [pc |-> "idle", calls |-> 0, trades |-> <<>>, market |-> Market("m1", "q", "list"),
           position |-> None]

NoResponse ==
    [backend |-> "none",
     resp |-> [kind |-> "none", score |-> [kind |-> "missing", val |-> 0],
               has_edge |-> FALSE, position |-> None]]

NoBars == [score |-> 0, alert |-> <<>>, moltbook |-> <<>>, telegram |-> <<>>]

\* nothing summarised, fetched, called concurrently, analyzed directly or rendered
NoAux ==
    /\ summary = NoSummary
    /\ feed = <<>>
    /\ procs = [p \in Procs |-> NoProc]
    /\ written = {}
    /\ response = NoResponse
    /\ bars = NoBars

\* the environment of a process: its keys, and the analyzer they select
Environment ==
    /\ config \in Configs
    /\ args \in ArgSets
    /\ args.backend = SelectedBackend(config)

\* a process that has done nothing yet, in any environment
IdleRun ==
    /\ call = NoCall
    /\ pc = "idle"
    /\ scan = "none"
    /\ NoAux
    /\ markets = <<>>
    /\ i = 0
    /\ alerts_sent = 0
    /\ moltbook_post = FALSE
    /\ moltbook_dm = FALSE
    /\ analysis = NoAnalysis
    /\ ledger0 = ledger
    /\ events = <<>>

\* a process that has done nothing yet
IdleProcess == IdleRun /\ Environment

\* a process about to run scans: nothing fetched, nothing analyzed
ProcessInit ==
    /\ ledger \in RunLedgers
    /\ store = "list"
    /\ IdleProcess

NoScheduler == sched = "once" /\ due = 0 /\ active = 0

NoHeartbeat == hb = MissingFile /\ now = 0 /\ beat = NoBeat /\ polls = <<>>

Init == ProcessInit /\ NoScheduler /\ NoHeartbeat

\* a direct call of the ledger's add_trade, outside any run
AddTradeCall ==
    /\ pc = "idle" /\ scan = "none"
    /\ \E m \in AllMarkets, p \in Positions :
          LET loaded == load_portfolio(store, ledger)
              r == add_trade(loaded, m, p, MIN_CONFIDENCE_THRESHOLD)
          IN  /\ ledger' = r.trades
              /\ store' = IF r.added THEN "list" ELSE store
              /\ call' = CallRecord(loaded, m, p, MIN_CONFIDENCE_THRESHOLD)
    /\ UNCHANGED <<pc, scan, args, markets, i, alerts_sent, moltbook_post, moltbook_dm,
                   analysis, ledger0, events>>
    /\ UNCHANGED <<schedvars, hbvars, auxvars>>

AfterFetch_AlwaysAnalyzes(outcome) == "head"

\* run_scan lines 136-153: analyze_and_alert is only reached with a non-empty batch
AfterFetch(outcome) == IF outcome = "running" THEN "head" ELSE "idle"

\* run_scan up to the first analyzer call: validate (lines 132-136), fetch (140-149),
\* and analyze_and_alert's binding of the Moltbook functions (lines 41-56)
run_scan(maxlen) ==
    /\ pc = "idle"
    /\ \E outcome \in {"config_missing", "fetch_failed", "no_markets", "running"},
          ms \in SeqsUpTo(FetchedMarkets, maxlen) :
          /\ scan' = outcome
          /\ (outcome = "config_missing") = (validate(config) # {})
          /\ (outcome = "running") = (ms # <<>>)
          /\ markets' = ms
          /\ pc' = AfterFetch(outcome)
          /\ i' = IF outcome = "running" THEN 1 ELSE 0
          /\ moltbook_post' = (outcome = "running" /\ (args.moltbook \/ args.ask_peer))
          /\ moltbook_dm' = (outcome = "running" /\ (args.moltbook \/ args.ask_peer))
    /\ alerts_sent' = 0
    /\ analysis' = NoAnalysis
    /\ ledger0' = ledger
    /\ events' = <<>>
    /\ call' = NoCall
    /\ UNCHANGED <<ledger, store, args>>

\* main line 288 (--once): one scan, no scheduler; the process ends after it
RunScan == scan = "none" /\ run_scan(MaxBatch) /\ UNCHANGED <<schedvars, hbvars, auxvars>>

\* the end of one loop iteration: the pause (line 118) and the next market, or the return
Advance(evs, pause) ==
    /\ analysis' = NoAnalysis
    /\ IF i < Len(markets)
       THEN /\ i' = i + 1
            /\ pc' = "head"
            /\ scan' = scan
            /\ events' = IF pause THEN Append(evs, Event("sleep", i, "ok")) ELSE evs
       ELSE /\ i' = i
            /\ pc' = "idle"
            /\ scan' = "complete"
            /\ events' = evs

\* an exception raised inside the try block of iteration i
Raise(evs, exc) ==
    IF LoopCatches(exc)
    THEN Advance(Append(evs, Event("except", i, exc)), FALSE)
    ELSE /\ pc' = "idle"
         /\ scan' = "raised"
         /\ events' = Append(evs, Event("escaped", i, exc))
         /\ UNCHANGED <<i, analysis>>

\* line 60, outside the try block: market.question[:50] on a None question
HeadPrintRaises ==
    /\ pc = "head"
    /\ args.verbose /\ markets[i].question = None
    /\ pc' = "idle"
    /\ scan' = "raised"
    /\ events' = Append(events, Event("print", i, "TypeError"))
    /\ UNCHANGED <<ledger, store, call, args, markets, i, alerts_sent, moltbook_post, moltbook_dm,
                   analysis, ledger0>>
    /\ UNCHANGED <<schedvars, hbvars, auxvars>>

\* lines 63-71 and 109: the analyzer call and the admission test
Analyze ==
    /\ pc = "head"
    /\ ~(args.verbose /\ markets[i].question = None)
    /\ \E resp \in Responses :
          LET r == analyze_market(args.backend, resp)
          IN  IF r.exc # "none"
              THEN Raise(Append(events, AnalyzeEvent(i, "raised", r.analysis)), r.exc)
              ELSE IF AlertWorthy(r.analysis)
              THEN /\ analysis' = r.analysis
                   /\ pc' = "ledger"
                   /\ events' = Append(events, AnalyzeEvent(i, "parsed", r.analysis))
                   /\ UNCHANGED <<i, scan>>
              ELSE Advance(Append(events, AnalyzeEvent(i,
                              IF r.analysis.synthetic THEN "synthetic" ELSE "parsed",
                              r.analysis)), TRUE)
    /\ UNCHANGED <<ledger, store, call, args, markets, alerts_sent, moltbook_post, moltbook_dm, ledger0>>
    /\ UNCHANGED <<schedvars, hbvars, auxvars>>

\* line 76: the paper trade
RecordTrade ==
    /\ pc = "ledger"
    /\ LET m == markets[i]
           loaded == load_portfolio(store, ledger)
           r == add_trade(loaded, m, analysis.recommended_position, analysis.confidence_score)
           evs == Append(events, Event("add_trade", i,
                            IF r.exc # "none" THEN r.exc ELSE IF r.added THEN "added" ELSE "noop"))
       IN  /\ ledger' = r.trades
           /\ store' = IF r.added THEN "list" ELSE store
           /\ call' = CallRecord(loaded, m, analysis.recommended_position,
                                 analysis.confidence_score)
           /\ IF r.exc # "none"
              THEN Raise(evs, r.exc)
              ELSE /\ pc' = AfterRecord(args.ask_peer /\ moltbook_dm)
                   /\ events' = evs
                   /\ UNCHANGED <<i, scan, analysis>>
    /\ UNCHANGED <<args, markets, alerts_sent, moltbook_post, moltbook_dm, ledger0>>
    /\ UNCHANGED <<schedvars, hbvars, auxvars>>

\* lines 79-88: the review request; send_dm (moltbook/client.py 255-263) returns a bool
PeerDM ==
    /\ pc = "dm"
    /\ \E ok \in BOOLEAN :
          LET evs == Append(events, Event("dm", i, IF ok THEN "ok" ELSE "failed"))
              nxt == AfterDm(ok)
          IN  IF nxt = "except"
              THEN Raise(evs, "RequestException")
              ELSE /\ pc' = nxt
                   /\ events' = evs
                   /\ UNCHANGED <<i, scan, analysis>>
    /\ UNCHANGED <<ledger, store, call, args, markets, alerts_sent, moltbook_post, moltbook_dm, ledger0>>
    /\ UNCHANGED <<schedvars, hbvars, auxvars>>

\* lines 91-95: format the alert (to_alert_message concatenates a str or skips None)
\* and send it to Telegram; send_alert returns a bool
SendTelegram ==
    /\ pc = "telegram"
    /\ \E ok \in BOOLEAN :
          LET evs == Append(events, Event("telegram", i, IF ok THEN "ok" ELSE "failed"))
          IN  /\ alerts_sent' = CountAlert(alerts_sent, ok)
              /\ IF AfterTelegram(ok, moltbook_post) = "moltbook"
                 THEN /\ pc' = "moltbook"
                      /\ events' = evs
                      /\ UNCHANGED <<i, scan, analysis>>
                 ELSE Advance(evs, TRUE)
    /\ UNCHANGED <<ledger, store, call, args, markets, moltbook_post, moltbook_dm, ledger0>>
    /\ UNCHANGED <<schedvars, hbvars, auxvars>>

\* lines 98-107: post_edge_alert (moltbook/client.py 206-252) returns a bool
PostMoltbook ==
    /\ pc = "moltbook"
    /\ \E ok \in BOOLEAN :
          Advance(Append(events, Event("moltbook", i, IF ok THEN "ok" ELSE "failed")), TRUE)
    /\ UNCHANGED <<ledger, store, call, args, markets, alerts_sent, moltbook_post, moltbook_dm, ledger0>>
    /\ UNCHANGED <<schedvars, hbvars, auxvars>>

Next ==
    \/ RunScan
    \/ HeadPrintRaises
    \/ Analyze
    \/ RecordTrade
    \/ PeerDM
    \/ SendTelegram
    \/ PostMoltbook

Spec == Init /\ [][Next]_vars

\* the ledger alone: any sequence of add_trade calls on an initially empty ledger
LedgerInit == Init /\ ledger = <<>>

LedgerNext == AddTradeCall

LedgerSpec == LedgerInit /\ [][LedgerNext]_vars

----------------------------------------------------------------------------
(* Scheduler (main.py run_scheduler).  sched is its position:               *)
(*   "start"        entered, before the immediate scan of line 175          *)
(*   "initial"      inside the immediate scan                               *)
(*   "loop"         inside the while loop of lines 181-183, no job running  *)
(*   "job"          inside a scan started by schedule.run_pending()         *)
(*   "stopped"      left through the except KeyboardInterrupt of line 184   *)
(*   "interrupted"  left by a KeyboardInterrupt that nothing caught         *)
(*   "crashed"      left by another exception                               *)

\* the process is inside run_scheduler
SchedulerAlive == sched \in {"start", "initial", "loop", "job"}

\* the process is inside the try block of lines 180-185
InsideTry == sched \in {"loop", "job"}

SchedInit == ProcessInit /\ sched = "start" /\ due = 0 /\ active = 0 /\ NoHeartbeat

\* line 175: the immediate scan
InitialScan ==
    /\ sched = "start"
    /\ run_scan(MaxSchedBatch)
    /\ sched' = "initial"
    /\ active' = active + 1
    /\ UNCHANGED <<due, hbvars, auxvars>>

\* time passes: one more interval since every(interval) or since the job's last run
IntervalElapses ==
    /\ InsideTry
    /\ due < MaxIntervals
    /\ due' = due + 1
    /\ UNCHANGED <<ledger, store, call, pc, scan, args, markets, i, alerts_sent, moltbook_post,
                   moltbook_dm, analysis, ledger0, events, sched, active, hbvars, auxvars>>

MayTrigger_Timer(s) == s \in {"loop", "job"}

\* run_pending is called by the loop's own thread, between two sleeps (lines 181-183)
MayTrigger(s) == s = "loop"

\* line 182: run_pending finds the job due and calls run_scan
ScheduledScan ==
    /\ MayTrigger(sched)
    /\ due >= 1
    /\ run_scan(MaxSchedBatch)
    /\ sched' = "job"
    /\ active' = active + 1
    /\ UNCHANGED <<due, hbvars, auxvars>>

\* run_scan returns (lines 136, 149, 153, 158): after the immediate scan line 178
\* schedules the job, after a job the schedule library sets its next run
ScanReturns ==
    /\ sched \in {"initial", "job"}
    /\ pc = "idle" /\ scan \in {"config_missing", "fetch_failed", "no_markets", "complete"}
    /\ sched' = "loop"
    /\ due' = 0
    /\ active' = active - 1
    /\ UNCHANGED <<ledger, store, call, pc, scan, args, markets, i, alerts_sent, moltbook_post,
                   moltbook_dm, analysis, ledger0, events, hbvars, auxvars>>

\* an exception leaves run_scan: line 175 is outside the try block, and the
\* try block of line 180 has no clause for it
ScanRaises ==
    /\ sched \in {"initial", "job"}
    /\ pc = "idle" /\ scan = "raised"
    /\ sched' = "crashed"
    /\ active' = active - 1
    /\ UNCHANGED <<ledger, store, call, pc, scan, args, markets, i, alerts_sent, moltbook_post,
                   moltbook_dm, analysis, ledger0, events, due, hbvars, auxvars>>

\* KeyboardInterrupt: no except Exception clause catches it, so it unwinds the
\* scan in progress and reaches line 184 when raised inside the try block
Cancel ==
    /\ SchedulerAlive
    /\ sched' = IF InsideTry THEN "stopped" ELSE "interrupted"
    /\ pc' = "idle"
    /\ scan' = IF pc # "idle" THEN "cancelled" ELSE scan
    /\ active' = 0
    /\ UNCHANGED <<ledger, store, call, args, markets, i, alerts_sent, moltbook_post,
                   moltbook_dm, analysis, ledger0, events, due, hbvars, auxvars>>

\* every step of the scheduler process but the cancellation
SchedSteps ==
    \/ InitialScan
    \/ IntervalElapses
    \/ ScheduledScan
    \/ ScanReturns
    \/ ScanRaises
    \/ HeadPrintRaises
    \/ Analyze
    \/ RecordTrade
    \/ PeerDM
    \/ SendTelegram
    \/ PostMoltbook

SchedNext == SchedSteps \/ Cancel

SchedSpec == SchedInit /\ [][SchedNext]_vars

\* the process keeps running and time keeps passing
SchedFairSpec == SchedSpec /\ WF_vars(SchedSteps)

----------------------------------------------------------------------------
(* The heartbeat process (heartbeat.py, main --heartbeat): calls in         *)
(* sequence, the wall clock moving forward between and during them.         *)

HeartbeatInit ==
    /\ ledger = <<>> /\ store = "list"
    /\ IdleRun
    /\ args = [verbose |-> TRUE, moltbook |-> FALSE, ask_peer |-> FALSE, backend |-> "gemini"]
    /\ config \in {{"TELEGRAM_BOT_TOKEN", "TELEGRAM_CHANNEL_ID", "GEMINI_API_KEY"},
                   {"TELEGRAM_BOT_TOKEN", "TELEGRAM_CHANNEL_ID", "GEMINI_API_KEY",
                    "MOLTBOOK_API_KEY"}}
    /\ NoScheduler
    /\ now = StartClock
    /\ hb \in HeartbeatFiles(now)
    /\ beat = NoBeat
    /\ polls = <<>>

BeatRecord(op, task, hours, polled) ==
    [op |-> op, task |-> task, at |-> now, before |-> hb, hours |-> hours, polled |-> polled,
     checks |-> NoChecks]

ClockAdvances ==
    /\ now < MaxClock
    /\ now' = now + 1
    /\ UNCHANGED <<ledger, store, call, pc, scan, args, markets, i, alerts_sent, moltbook_post,
                   moltbook_dm, analysis, ledger0, events, schedvars, auxvars, hb, beat, polls>>

\* time_since_last(task)
TimeSinceLast ==
    /\ \E task \in Tasks :
          beat' = BeatRecord("time_since_last", task, time_since_last(hb, task, now), FALSE)
    /\ UNCHANGED <<ledger, store, call, pc, scan, args, markets, i, alerts_sent, moltbook_post,
                   moltbook_dm, analysis, ledger0, events, schedvars, auxvars, hb, now, polls>>

\* update_heartbeat(task)
UpdateHeartbeat ==
    /\ \E task \in Tasks :
          /\ hb' = update_heartbeat(hb, task, now)
          /\ beat' = BeatRecord("update_heartbeat", task, time_since_last(hb, task, now), FALSE)
    /\ UNCHANGED <<ledger, store, call, pc, scan, args, markets, i, alerts_sent, moltbook_post,
                   moltbook_dm, analysis, ledger0, events, schedvars, auxvars, now, polls>>

\* run_moltbook_heartbeat: the gate, the three checks (which take d hours), the mark
RunMoltbookHeartbeat ==
    /\ LET hours == time_since_last(hb, "moltbook_check", now)
       IN  IF Less(hours, HeartbeatInterval)
           THEN /\ beat' = BeatRecord("run_moltbook_heartbeat", "moltbook_check", hours, FALSE)
                /\ UNCHANGED <<hb, now, polls>>
           ELSE \E d \in {0, 1}, c \in CheckOutcomes(config) :
                   /\ now + d <= MaxClock
                   /\ beat' = [BeatRecord("run_moltbook_heartbeat", "moltbook_check", hours,
                                          TRUE) EXCEPT !.checks = c]
                   /\ polls' = LastTwo(Append(polls, now))
                   /\ now' = now + d
                   /\ hb' = IF MarksDone(c) THEN MarkAfterPoll(hb, now + d) ELSE hb
    /\ UNCHANGED <<ledger, store, call, pc, scan, args, markets, i, alerts_sent, moltbook_post,
                   moltbook_dm, analysis, ledger0, events, schedvars, auxvars>>

HeartbeatNext ==
    \/ ClockAdvances
    \/ TimeSinceLast
    \/ UpdateHeartbeat
    \/ RunMoltbookHeartbeat

HeartbeatSpec == HeartbeatInit /\ [][HeartbeatNext]_vars

----------------------------------------------------------------------------
(* Performance summary (portfolio.py get_performance_summary).  pnl is in   *)
(* hundredths of a unit; a quotient of floats is an exact fraction.         *)

Rat(n, d) == [num |-> n, den |-> d]

\* a / b
RatDiv(a, b) == Rat(a, b)

\* r * k
RatTimes(r, k) == Rat(r.num * k, r.den)

IsOpen_Never(t) == FALSE

\* line 78
IsOpen(t) == t.status = "open"

IsClosed_OnlyLost(t) == t.status = "lost"

\* line 77
IsClosed(t) == t.status # "open"

\* line 90
IsWon(t) == t.status = "won"

RECURSIVE SumPnl(_)
\* line 91: sum(t["pnl"] for t in closed if t["pnl"] is not None)
SumPnl(ts) ==
    IF ts = <<>> THEN 0
    ELSE (IF Head(ts).pnl.null THEN 0 ELSE Head(ts).pnl.v) + SumPnl(Tail(ts))

get_performance_summary(trades) ==
    LET closed == SelectSeq(trades, IsClosed)
        open_trades == SelectSeq(trades, IsOpen)
        wins == SelectSeq(closed, IsWon)
        total_pnl == SumPnl(closed)
        invested == Len(closed)
    IN  IF closed = <<>>
        THEN [total_trades |-> Len(trades), open_trades |-> Len(open_trades),
              closed_trades |-> 0, win_rate |-> Rat(0, 1), total_pnl |-> 0, roi |-> Rat(0, 1)]
        ELSE [total_trades |-> Len(trades), open_trades |-> Len(open_trades),
              closed_trades |-> Len(closed), wins |-> Len(wins),
              win_rate |-> RatTimes(RatDiv(Len(wins), Len(closed)), 100),
              total_pnl |-> total_pnl,
              roi |-> IF invested > 0 THEN RatTimes(RatDiv(total_pnl, invested), 100)
                      ELSE Rat(0, 1)]

\* a trade as an external settlement leaves it in the file
Settled(id, status, pnl) ==
    [NewTrade(Market(id, "q", "dict"), "Yes", MIN_CONFIDENCE_THRESHOLD)
        EXCEPT !.status = status, !.pnl = pnl,
               !.exit_price = IF status = "won" THEN Float(100) ELSE Float(0),
               !.resolved_date = "resolved"]

SummaryTrades ==
    {NewTrade(Market("m1", "q", "dict"), "Yes", MIN_CONFIDENCE_THRESHOLD),
     Settled("m1", "won", Float(65)), Settled("m1", "won", Null),
     Settled("m1", "lost", Float(-35)), Settled("m1", "lost", Null)}

\* portfolio.json: its kind and the list it holds
StoreFiles(ledgers) ==
    {[kind |-> "missing", trades |-> <<>>], [kind |-> "invalid", trades |-> <<>>]}
    \cup {[kind |-> "list", trades |-> l] : l \in ledgers}

\* one environment for the processes that call single functions
DefaultEnvironment ==
    /\ args = [verbose |-> TRUE, moltbook |-> FALSE, ask_peer |-> FALSE, backend |-> "gemini"]
    /\ config = {"TELEGRAM_BOT_TOKEN", "TELEGRAM_CHANNEL_ID", "GEMINI_API_KEY"}

SummaryInit ==
    /\ \E f \in StoreFiles(SeqsUpTo(SummaryTrades, MaxTrades)) :
          store = f.kind /\ ledger = f.trades
    /\ IdleProcess
    /\ DefaultEnvironment
    /\ NoScheduler
    /\ NoHeartbeat

\* main --portfolio (lines 239-253): get_performance_summary()
GetSummary ==
    /\ pc = "idle" /\ scan = "none"
    /\ summary' = [called |-> TRUE,
                   ret |-> get_performance_summary(load_portfolio(store, ledger))]
    /\ UNCHANGED <<ledger, store, call, pc, scan, args, markets, i, alerts_sent, moltbook_post,
                   moltbook_dm, analysis, ledger0, events, schedvars, hbvars, config, feed,
                   procs, written, response, bars>>

SummaryNext == GetSummary

SummarySpec == SummaryInit /\ [][SummaryNext]_vars

----------------------------------------------------------------------------
(* The ledger file as add_trade finds it: missing, not JSON, or a list      *)
(* that holds trades an external settlement has closed.                     *)

SettledLedgers ==
    {<<>>,
     <<Settled("m1", "won", Float(65))>>,
     <<Settled("m1", "lost", Float(-35)), Settled("m2", "won", Null)>>,
     <<Settled("m2", "lost", Float(-80)),
       NewTrade(Market("m1", "q", "dict"), "Yes", MIN_CONFIDENCE_THRESHOLD)>>}

StoreInit ==
    /\ \E f \in StoreFiles(SettledLedgers) : store = f.kind /\ ledger = f.trades
    /\ IdleProcess
    /\ DefaultEnvironment
    /\ NoScheduler
    /\ NoHeartbeat

StoreNext == AddTradeCall

StoreSpec == StoreInit /\ [][StoreNext]_vars

----------------------------------------------------------------------------
(* The two entry points of portfolio.py called in any order on one file.    *)

PortfolioNext == AddTradeCall \/ GetSummary

PortfolioSpec == StoreInit /\ [][PortfolioNext]_vars

----------------------------------------------------------------------------
(* The data source (polymarket/fetcher.py get_active_markets).  A member of *)
(* an item is absent, a string that is no JSON, or a JSON list; a price is  *)
(* a numeric string or a string float() rejects.                            *)

Price(v) == [ok |-> TRUE, v |-> v]

BadPrice == [ok |-> FALSE, v |-> 0]

AbsentMember == [kind |-> "absent", val |-> <<>>]

NotJson == [kind |-> "notjson", val |-> <<>>]

JsonList(l) == [kind |-> "list", val |-> l]

FeedItems ==
    [id : {"m1"}, question : {"q"},
     outcomes : {AbsentMember, NotJson, JsonList(<<"Yes", "No">>), JsonList(<<"Yes">>)},
     outcomePrices : {AbsentMember, NotJson, JsonList(<<Price(35), Price(65)>>),
                      JsonList(<<Price(35)>>), JsonList(<<BadPrice, Price(65)>>)}]

\* item.get(name, "[]") followed by json.loads: the list, [] when absent
Loaded(member) == IF member.kind = "absent" THEN <<>> ELSE member.val

\* lines 83-97: the exception parsing the item raises, "none" when it parses
ParseRaises(item) ==
    IF item.outcomePrices.kind = "notjson" THEN "JSONDecodeError"
    ELSE IF \E k \in 1..Len(item.outcomePrices.val) : ~item.outcomePrices.val[k].ok
    THEN "ValueError"
    ELSE IF item.outcomes.kind = "notjson" THEN "JSONDecodeError"
    ELSE "none"

\* line 111: except (ValueError, KeyError, TypeError): continue
SkipsItem(item) == ParseRaises(item) # "none"

\* lines 99-109
ParsedMarket(item) ==
    [id |-> item.id, question |-> item.question, outcomes |-> Loaded(item.outcomes),
     outcome_prices |-> [k \in 1..Len(Loaded(item.outcomePrices)) |->
                            Loaded(item.outcomePrices)[k].v],
     prices_type |-> "list"]

RECURSIVE get_active_markets(_)
get_active_markets(items) ==
    IF items = <<>> THEN <<>>
    ELSE IF SkipsItem(Head(items)) THEN get_active_markets(Tail(items))
    ELSE <<ParsedMarket(Head(items))>> \o get_active_markets(Tail(items))

FetchInit ==
    /\ ledger = <<>> /\ store = "list"
    /\ IdleProcess
    /\ DefaultEnvironment
    /\ NoScheduler
    /\ NoHeartbeat

\* get_active_markets() on one response of the API
GetActiveMarkets ==
    /\ pc = "idle" /\ scan = "none"
    /\ \E items \in SeqsUpTo(FeedItems, MaxFeed) :
          /\ feed' = items
          /\ markets' = get_active_markets(items)
    /\ UNCHANGED <<ledger, store, call, pc, scan, args, i, alerts_sent, moltbook_post,
                   moltbook_dm, analysis, ledger0, events, schedvars, hbvars, config, summary,
                   procs, written, response, bars>>

FetchNext == GetActiveMarkets

FetchSpec == FetchInit /\ [][FetchNext]_vars

----------------------------------------------------------------------------
(* Two processes calling add_trade on the same portfolio.json.  A call is   *)
(* two steps on the file: _load_portfolio (line 45), then, after the check  *)
(* and the append on the process's own list, _save_portfolio (line 69).     *)

ConcInit ==
    /\ ledger = <<>> /\ store = "list"
    /\ IdleProcess
    /\ DefaultEnvironment
    /\ NoScheduler
    /\ NoHeartbeat

\* add_trade line 45: trades = _load_portfolio()
LoadPortfolio(p) ==
    /\ pc = "idle" /\ scan = "none"
    /\ procs[p].pc = "idle"
    /\ procs[p].calls < MaxCalls
    /\ \E m \in AllMarkets, pos \in Positions :
          procs' = [procs EXCEPT ![p] =
                       [pc |-> "loaded", calls |-> procs[p].calls + 1,
                        trades |-> load_portfolio(store, ledger),
                        market |-> m, position |-> pos]]
    /\ UNCHANGED <<ledger, store, call, pc, scan, args, markets, i, alerts_sent, moltbook_post,
                   moltbook_dm, analysis, ledger0, events, schedvars, hbvars, config, summary,
                   feed, written, response, bars>>

\* add_trade lines 48-70 on the list read earlier: _save_portfolio overwrites the file
SavePortfolio(p) ==
    /\ procs[p].pc = "loaded"
    /\ LET r == add_trade(procs[p].trades, procs[p].market, procs[p].position,
                          MIN_CONFIDENCE_THRESHOLD)
       IN  /\ ledger' = IF r.added THEN r.trades ELSE ledger
           /\ store' = IF r.added THEN "list" ELSE store
           /\ written' = IF r.added THEN written \cup {r.trades[Len(r.trades)]} ELSE written
    /\ procs' = [procs EXCEPT ![p].pc = "idle"]
    /\ UNCHANGED <<call, pc, scan, args, markets, i, alerts_sent, moltbook_post,
                   moltbook_dm, analysis, ledger0, events, schedvars, hbvars, config, summary,
                   feed, response, bars>>

ConcNext == \E p \in Procs : LoadPortfolio(p) \/ SavePortfolio(p)

ConcSpec == ConcInit /\ [][ConcNext]_vars

----------------------------------------------------------------------------
(* The analyzer called on its own (gemini_analyzer.py analyze_market), and  *)
(* the confidence bar drawn from the analysis it returned.                  *)

\* the "confidence_score" member of the answer: absent, null, a JSON number (an int,
\* a float in tenths, NaN, Infinity), a string of digits, any other string
ReportedScores ==
    {[kind |-> k, val |-> 0] : k \in {"missing", "null", "text", "nan", "inf"}}
    \cup {[kind |-> k, val |-> v] : k \in {"int", "digits"}, v \in -ScoreSpan..ScoreSpan}
    \cup {[kind |-> "float", val |-> v] : v \in -(10 * ScoreSpan)..(10 * ScoreSpan)}

ReportedResponses ==
    FailureResponses
    \cup {[kind |-> "json", score |-> sc, has_edge |-> e, position |-> "Yes"]
            : sc \in ReportedScores, e \in BOOLEAN}

\* "x" * n: no copies when n <= 0
Repeat(x, n) == [k \in 1..n |-> x]

Filled_Rounded(c) == (c + 1) \div PointsPerSegment

\* confidence_score // 2
Filled(c) == c \div PointsPerSegment

\* EdgeAnalysis.to_alert_message line 34
to_alert_message_bar(c) ==
    Repeat("filled", Filled(c)) \o Repeat("empty", BarSegments - Filled(c))

\* moltbook/client.py post_edge_alert line 225
post_edge_alert_bar(c) ==
    Repeat("filled", Filled(c)) \o Repeat("empty", BarSegments - Filled(c))

\* alerts/telegram_bot.py send_edge_alert line 84
send_edge_alert_bar(c) ==
    Repeat("filled", Filled(c)) \o Repeat("empty", BarSegments - Filled(c))

AnalyzerInit ==
    /\ ledger = <<>> /\ store = "list"
    /\ IdleProcess
    /\ DefaultEnvironment
    /\ NoScheduler
    /\ NoHeartbeat

\* analyze_market of either analyzer on one answer of its model
AnalyzeCall ==
    /\ pc = "idle" /\ scan = "none"
    /\ \E b \in Backends, resp \in ReportedResponses :
          /\ response' = [backend |-> b, resp |-> resp]
          /\ analysis' = analyze_market(b, resp).analysis
    /\ bars' = NoBars
    /\ UNCHANGED <<ledger, store, call, pc, scan, args, markets, i, alerts_sent, moltbook_post,
                   moltbook_dm, ledger0, events, schedvars, hbvars, config, summary, feed,
                   procs, written>>

\* the bar of the returned analysis, as each of the three alert formats draws it
RenderBars ==
    /\ pc = "idle" /\ scan = "none"
    /\ analysis # NoAnalysis
    /\ bars = NoBars
    /\ bars' = [score |-> analysis.confidence_score,
                alert |-> to_alert_message_bar(analysis.confidence_score),
                moltbook |-> post_edge_alert_bar(analysis.confidence_score),
                telegram |-> send_edge_alert_bar(analysis.confidence_score)]
    /\ UNCHANGED <<ledger, store, call, pc, scan, args, markets, i, alerts_sent, moltbook_post,
                   moltbook_dm, analysis, ledger0, events, schedvars, hbvars, config, summary,
                   feed, procs, written, response>>

AnalyzerNext == AnalyzeCall \/ RenderBars

AnalyzerSpec == AnalyzerInit /\ [][AnalyzerNext]_vars

----------------------------------------------------------------------------
(* A single-scan process (main --once, lines 287-289): run_scan, then        *)
(* update_heartbeat("market_scan"), the wall clock moving meanwhile.         *)

\* heartbeat.json as the process finds it
OnceFiles ==
    {MissingFile, InvalidFile,
     save_heartbeat([NoData EXCEPT !["moltbook_check"] = NotIso]),
     save_heartbeat([NoData EXCEPT !["moltbook_check"] = isoformat(1),
                                   !["market_scan"] = isoformat(0)])}

\* one ledger (an open trade for "m1") and both Moltbook options set; any keys
OnceInit ==
    /\ ledger = Recorded(<<>>, "m1") /\ store = "list"
    /\ IdleProcess
    /\ args.moltbook /\ args.ask_peer
    /\ NoScheduler
    /\ now = StartClock
    /\ hb \in OnceFiles
    /\ beat = NoBeat
    /\ polls = <<>>

\* line 288, on a batch of at most MaxSchedBatch markets
OnceScan == scan = "none" /\ run_scan(MaxSchedBatch) /\ UNCHANGED <<schedvars, hbvars, auxvars>>

ReturnsNormally_OnlyComplete(outcome) == outcome = "complete"

\* run_scan came back to its caller: the returns of lines 136, 145, 149 and the end
\* of the function (line 158)
ReturnsNormally(outcome) ==
    outcome \in {"config_missing", "fetch_failed", "no_markets", "complete"}

\* line 289: update_heartbeat("market_scan"), the statement after run_scan
MarkScan ==
    /\ pc = "idle" /\ ReturnsNormally(scan)
    /\ beat.op = "none"
    /\ hb' = update_heartbeat(hb, "market_scan", now)
    /\ beat' = BeatRecord("update_heartbeat", "market_scan",
                          time_since_last(hb, "market_scan", now), FALSE)
    /\ UNCHANGED <<ledger, store, call, pc, scan, args, markets, i, alerts_sent, moltbook_post,
                   moltbook_dm, analysis, ledger0, events, schedvars, auxvars, now, polls>>

OnceNext ==
    \/ OnceScan
    \/ HeadPrintRaises
    \/ Analyze
    \/ RecordTrade
    \/ PeerDM
    \/ SendTelegram
    \/ PostMoltbook
    \/ ClockAdvances
    \/ MarkScan

OnceSpec == OnceInit /\ [][OnceNext]_vars

\* main goes on to line 289 once run_scan has returned
OnceFairSpec == OnceSpec /\ WF_vars(MarkScan)

----------------------------------------------------------------------------
(* Reading the run's event log *)

EventIdx == 1..Len(events)

BatchIdx == 1..Len(markets)

Did(op, idx) == \E k \in EventIdx : events[k].op = op /\ events[k].idx = idx

DidWith(op, idx, res) ==
    \E k \in EventIdx : events[k].op = op /\ events[k].idx = idx /\ events[k].res = res

Count(op, res) ==
    Cardinality({k \in EventIdx : events[k].op = op /\ events[k].res = res})

Attempts(op, idx) ==
    Cardinality({k \in EventIdx : events[k].op = op /\ events[k].idx = idx})

\* the analyzer returned an analysis of market idx that meets the admission rule
Admissible(idx) ==
    \E k \in EventIdx :
        /\ events[k].op = "analyze" /\ events[k].idx = idx /\ events[k].res # "raised"
        /\ events[k].has_edge /\ events[k].confidence_score >= MIN_CONFIDENCE_THRESHOLD

\* the analyzer returned an analysis of market idx that does not meet it
NotAdmissible(idx) ==
    \E k \in EventIdx :
        /\ events[k].op = "analyze" /\ events[k].idx = idx /\ events[k].res # "raised"
        /\ ~(events[k].has_edge /\ events[k].confidence_score >= MIN_CONFIDENCE_THRESHOLD)

AdmissibleSet == {idx \in BatchIdx : Admissible(idx)}

\* the loop iteration of market idx is over
ItemDone(idx) == idx \in BatchIdx /\ (idx < i \/ scan = "complete")

DistinctIds == \A a, b \in BatchIdx : markets[a].id = markets[b].id => a = b

----------------------------------------------------------------------------
(* C1: after any sequence of add_trade calls by one process, the ledger     *)
(* holds at most one open trade per market id.                              *)
C1_AtMostOneOpenPerMarket == \A id \in MarketIds : OpenCount(ledger, id) <= 1

\* a call for a market that already had an open trade was made and left one open trade
C1_Witness ==
    /\ call.exc = "none" /\ ~call.added
    /\ OpenCount(call.before, call.market.id) = 1
    /\ OpenCount(ledger, call.market.id) = 1
    /\ Len(ledger) = 2

(* C2: a market whose analysis has has_edge false or a confidence below the *)
(* threshold causes no ledger call, no peer DM and no channel send; a run   *)
(* of only such markets leaves the ledger and alerts_sent unchanged.        *)
C2_NoSideEffectsBelowThreshold ==
    /\ \A idx \in BatchIdx :
          NotAdmissible(idx) =>
             /\ ~Did("add_trade", idx) /\ ~Did("dm", idx)
             /\ ~Did("telegram", idx) /\ ~Did("moltbook", idx)
    /\ (AdmissibleSet = {}) => (ledger = ledger0 /\ alerts_sent = 0)

\* a finished run saw has_edge with a confidence one below the threshold, and
\* a market with a sufficient confidence but no edge
C2_Witness ==
    /\ scan = "complete"
    /\ \E k \in EventIdx :
          /\ events[k].op = "analyze" /\ events[k].res = "parsed" /\ events[k].has_edge
          /\ events[k].confidence_score = MIN_CONFIDENCE_THRESHOLD - 1
    /\ \E k \in EventIdx :
          /\ events[k].op = "analyze" /\ events[k].res = "parsed" /\ ~events[k].has_edge
          /\ events[k].confidence_score >= MIN_CONFIDENCE_THRESHOLD

(* C3: a run over markets with pairwise distinct ids, none with an open     *)
(* trade beforehand, creates exactly one ledger entry and attempts exactly  *)
(* one primary-channel notification per alert-worthy market, and neither    *)
(* for any other market.                                                    *)
C3_OneEntryAndOneAlertPerWorthyMarket ==
    (/\ scan = "complete"
     /\ DistinctIds
     /\ \A idx \in BatchIdx : OpenCount(ledger0, markets[idx].id) = 0)
    => /\ Len(ledger) = Len(ledger0) + Cardinality(AdmissibleSet)
       /\ \A idx \in BatchIdx :
             IF Admissible(idx)
             THEN OpenCount(ledger, markets[idx].id) = 1 /\ Attempts("telegram", idx) = 1
             ELSE OpenCount(ledger, markets[idx].id) = 0 /\ Attempts("telegram", idx) = 0

(* C4: if a step for one market raises, the run still processes every other *)
(* market, returns its count without raising, and a market whose analyzer   *)
(* call raised gets no ledger entry and no notification.                    *)
C4_PerItemIsolation ==
    /\ (\E k \in EventIdx : events[k].op \in {"except", "escaped", "print"})
          => /\ scan # "raised"
             /\ (pc = "idle" => scan = "complete" /\ \A idx \in BatchIdx : Did("analyze", idx))
    /\ \A idx \in BatchIdx :
          DidWith("analyze", idx, "raised") =>
             /\ ~Did("add_trade", idx) /\ ~Did("dm", idx)
             /\ ~Did("telegram", idx) /\ ~Did("moltbook", idx)

(* C5: every failure of the analyzer call is caught at the analyzer         *)
(* boundary and becomes an EdgeAnalysis with confidence_score 1 and         *)
(* has_edge false; none leaves analyze_market as an exception, for either   *)
(* back-end.                                                                *)
C5_AnalyzerFailuresAreDowngraded ==
    \A k \in EventIdx :
        events[k].op = "analyze" =>
           /\ events[k].res # "raised"
           /\ (events[k].res = "synthetic" =>
                  events[k].confidence_score = FailureConfidence /\ ~events[k].has_edge)

(* C6: two add_trade calls with the same market id, from a ledger with no   *)
(* open trade for it, leave exactly one open trade: the first appends it,   *)
(* the second returns silently and changes nothing.                         *)
C6_RecordTwiceLeavesOneOpen ==
    call.exc # "nocall" =>
       /\ call.exc = "none"
       /\ OpenCount(ledger, call.market.id) = 1
       /\ (OpenCount(call.before, call.market.id) = 0 => call.added)
       /\ (OpenCount(call.before, call.market.id) = 1 => ledger = call.before)

(* C7: add_trade stores the market's current probability of the chosen      *)
(* position as entry price, 0.5 when the position is none of the market's   *)
(* outcomes (a null position included), and records the trade without       *)
(* raising.                                                                 *)
C7_EntryPriceOrHalf ==
    (call.exc # "nocall" /\ OpenCount(call.before, call.market.id) = 0) =>
       /\ call.exc = "none"
       /\ Len(ledger) = Len(call.before) + 1
       /\ ledger[Len(ledger)].id = call.market.id
       /\ ledger[Len(ledger)].position = call.position
       /\ ledger[Len(ledger)].entry_price =
             (IF \E k \in 1..Len(call.market.outcomes) : call.market.outcomes[k] = call.position
              THEN call.market.outcome_prices[
                      CHOOSE k \in 1..Len(call.market.outcomes) :
                          call.market.outcomes[k] = call.position]
              ELSE DefaultEntryPrice)

(* C8: the value a run returns is the number of markets whose Telegram send *)
(* returned success; peer-DM and Moltbook results do not enter it, and it   *)
(* never exceeds the number of alert-worthy markets.                        *)
C8_ReturnCountsPrimarySuccesses ==
    scan = "complete" =>
       /\ alerts_sent = Count("telegram", "ok")
       /\ alerts_sent <= Cardinality(AdmissibleSet)

\* a run returned 1 although a second Telegram send failed while a DM failed and
\* Moltbook posts succeeded
C8_Witness ==
    /\ scan = "complete"
    /\ alerts_sent = 1
    /\ Count("telegram", "failed") >= 1
    /\ Count("moltbook", "ok") >= 2
    /\ Count("dm", "failed") >= 1

(* C9: for every alert-worthy market each configured channel gets its send  *)
(* attempt whatever happened before: a failure or exception of the ledger   *)
(* step or of the primary channel does not prevent the secondary attempt.   *)
C9_ChannelsAttemptedIndependently ==
    \A idx \in BatchIdx :
        (Admissible(idx) /\ ItemDone(idx)) =>
           /\ Did("telegram", idx)
           /\ (args.moltbook => Did("moltbook", idx))

C11_PauseBetweenConsecutiveMarkets ==
    /\ \A k \in EventIdx :
          (events[k].op = "analyze" /\ events[k].idx > 1) =>
             (k > 1 /\ events[k - 1] = Event("sleep", events[k].idx - 1, "ok"))
    /\ ~Did("sleep", Len(markets))

(* C12: in one run the analyzer is invoked exactly once for each market of  *)
(* the batch, in input order; a market whose analysis failed is not         *)
(* analyzed again.                                                          *)
C12_AnalyzedOnceInOrder ==
    /\ \A idx \in BatchIdx : Attempts("analyze", idx) <= 1
    /\ \A j, k \in EventIdx :
          (events[j].op = "analyze" /\ events[k].op = "analyze" /\ j < k)
             => events[j].idx < events[k].idx
    /\ (pc = "idle" /\ scan \in {"complete", "raised"})
          => \A idx \in BatchIdx : Attempts("analyze", idx) = 1

(* C13: run_scheduler runs one scan immediately and then, as long as no     *)
(* cancellation arrives, starts a further scan each time the interval has   *)
(* elapsed, so scans recur infinitely often.                                *)
C13_ScansRecurUntilCancelled ==
    \/ (<>(sched = "initial") /\ []<>(sched = "job"))
    \/ <>(sched \in {"stopped", "interrupted"})

(* C14: no failure inside a scan propagates out of run_scan and ends the    *)
(* scheduler loop; only the external cancellation terminates it.            *)
C14_OnlyCancellationEndsScheduler ==
    /\ sched # "crashed"
    /\ (sched \in {"initial", "job"} => scan # "raised")

(* C15: when the cancellation arrives at any point after run_scheduler      *)
(* starts, no exception escapes run_scheduler, and the ledger entries and   *)
(* notifications are those of the last completed run: nothing is left from  *)
(* a partly executed run.                                                   *)
C15_CancellationLeavesNoPartialRun ==
    /\ sched # "interrupted"
    /\ (sched = "stopped" /\ scan = "cancelled") =>
          /\ ledger = ledger0
          /\ \A k \in EventIdx : events[k].op \notin {"dm", "telegram", "moltbook"}

(* C16: within one scheduler process at most one scan is in progress at any *)
(* time: a trigger never starts a run while the previous run has not        *)
(* returned, even when a run takes longer than the interval.                *)
C16_AtMostOneScanInProgress ==
    /\ active <= 1
    /\ (pc # "idle" => active = 1)

\* a scheduled scan is still sending its alert after the interval has elapsed again,
\* and it is the only scan in progress
C16_Witness ==
    /\ sched = "job" /\ pc = "moltbook"
    /\ due = MaxIntervals
    /\ active = 1

\* the time stored for a task in a heartbeat file, when one is stored and readable
HasTime(file, task) == file.kind = "dict" /\ file.data[task].kind = "iso"

TimeOf(file, task) == file.data[task].t

(* C17: the heartbeat gate finds a task due if and only if it has no        *)
(* recorded completion, or its record is unreadable, or the hours elapsed   *)
(* since the recorded completion are at least the interval (4 hours for     *)
(* moltbook_check); exactly at the boundary the task is due.                *)
C17_DueIffNeverOrIntervalElapsed ==
    /\ beat.op = "run_moltbook_heartbeat" =>
          (beat.polled <=>
              (\/ ~HasTime(beat.before, beat.task)
               \/ beat.at - TimeOf(beat.before, beat.task) >= HeartbeatInterval))
    /\ \A task \in Tasks :
          Due(hb, task, now) <=>
              (~HasTime(hb, task) \/ now - TimeOf(hb, task) >= HeartbeatInterval)

\* the gate was passed exactly at the boundary
C17_Witness ==
    /\ beat.op = "run_moltbook_heartbeat" /\ beat.polled
    /\ HasTime(beat.before, beat.task)
    /\ beat.at - TimeOf(beat.before, beat.task) = HeartbeatInterval

(* C18: a task never marked done is due; immediately after mark_done the    *)
(* task is not due; the elapsed hours reported for it are non-negative and  *)
(* do not decrease as the clock advances until the next mark_done.          *)
C18_DueUntilMarkedThenElapsedGrows ==
    /\ [](\A task \in Tasks :
            /\ load_heartbeat(hb)[task] = Absent => Due(hb, task, now)
            /\ (beat.op = "update_heartbeat" /\ beat.task = task /\ beat.at = now)
                  => (~Due(hb, task, now) /\ time_since_last(hb, task, now) = Hours(0))
            /\ HasTime(hb, task) => time_since_last(hb, task, now).h >= 0)
    /\ [][\A task \in Tasks :
            (HasTime(hb, task) /\ hb' = hb /\ now' >= now)
               => time_since_last(hb', task, now').h >= time_since_last(hb, task, now).h]_vars

\* a task that was due is marked done and is not due in the same hour
C18_Witness ==
    /\ beat.op = "update_heartbeat" /\ beat.at = now
    /\ Due(beat.before, beat.task, now)
    /\ ~Due(hb, beat.task, now)

(* C19: the last-completion time stored for a task never decreases over any *)
(* sequence of mark_done calls: each call overwrites it with the current    *)
(* time, and no operation rolls it back or removes it.                      *)
C19_StoredTimeNeverDecreases ==
    [][\A task \in Tasks :
          /\ HasTime(hb, task) => (HasTime(hb', task) /\ TimeOf(hb', task) >= TimeOf(hb, task))
          /\ (beat'.op = "update_heartbeat" /\ beat'.task = task /\ beat' # beat)
                => (HasTime(hb', task) /\ TimeOf(hb', task) = now)]_vars

\* a mark_done of one task overwrote its older time and kept the other task's time
C19_Witness ==
    /\ beat.op = "update_heartbeat"
    /\ HasTime(beat.before, beat.task) /\ TimeOf(beat.before, beat.task) < TimeOf(hb, beat.task)
    /\ \E other \in Tasks \ {beat.task} :
          HasTime(beat.before, other) /\ HasTime(hb, other)
          /\ TimeOf(hb, other) = TimeOf(beat.before, other)

(* C20: over any sequence of run_moltbook_heartbeat invocations two         *)
(* executions of the polling are never less than 4 hours apart; an          *)
(* invocation that finds the task not due polls nothing and leaves the      *)
(* heartbeat record unchanged.                                              *)
C20_PollingsFourHoursApart ==
    /\ [](Len(polls) = 2 => polls[2] - polls[1] >= HeartbeatInterval)
    /\ [][/\ ~Due(hb, "moltbook_check", now) => polls' = polls
          /\ (beat'.op = "run_moltbook_heartbeat" /\ ~beat'.polled)
                => (hb' = hb /\ polls' = polls)]_vars

\* two pollings exactly 4 hours apart, and then an invocation that was not due
C20_Witness ==
    /\ Len(polls) = 2 /\ polls[2] - polls[1] = HeartbeatInterval
    /\ beat.op = "run_moltbook_heartbeat" /\ ~beat.polled

\* counts taken directly from the ledger file
StoredTrades == load_portfolio(store, ledger)

NumWith(statuses) ==
    Cardinality({k \in 1..Len(StoredTrades) : StoredTrades[k].status \in statuses})

PnlIndices == {k \in 1..Len(StoredTrades) :
                  StoredTrades[k].status # "open" /\ ~StoredTrades[k].pnl.null}

RECURSIVE PnlOver(_)
PnlOver(ks) ==
    IF ks = {} THEN 0
    ELSE LET k == CHOOSE x \in ks : TRUE IN StoredTrades[k].pnl.v + PnlOver(ks \ {k})

\* the fraction r equals n / d
RatIs(r, n, d) == r.den # 0 /\ d # 0 /\ r.num * d = n * r.den

(* C21: summary() on a ledger that is empty or holds only open trades       *)
(* returns win_rate 0, total_pnl 0 and roi 0, with closed_trades 0 and      *)
(* open_trades equal to total_trades.                                       *)
C21_SummaryOfAllOpenLedgerIsZero ==
    (summary.called /\ NumWith({"won", "lost"}) = 0) =>
       /\ RatIs(summary.ret.win_rate, 0, 1)
       /\ summary.ret.total_pnl = 0
       /\ RatIs(summary.ret.roi, 0, 1)
       /\ summary.ret.closed_trades = 0
       /\ summary.ret.open_trades = summary.ret.total_trades
       /\ summary.ret.total_trades = Len(StoredTrades)

\* the summary of a ledger of three open trades
C21_Witness ==
    /\ summary.called
    /\ Len(StoredTrades) = 3 /\ NumWith({"open"}) = 3
    /\ summary.ret.open_trades = 3

(* C22: for a ledger with at least one closed trade, summary() returns      *)
(* win_rate = wins / closed_trades x 100, total_pnl = the sum of pnl over   *)
(* closed trades whose pnl is not null, and roi = total_pnl / closed_trades *)
(* x 100; closed trades are those not open, wins those with status won.     *)
C22_SummaryFormulas ==
    (summary.called /\ NumWith({"won", "lost"}) >= 1) =>
       /\ summary.ret.closed_trades = NumWith({"won", "lost"})
       /\ summary.ret.wins = NumWith({"won"})
       /\ RatIs(summary.ret.win_rate, NumWith({"won"}) * 100, NumWith({"won", "lost"}))
       /\ summary.ret.total_pnl = PnlOver(PnlIndices)
       /\ RatIs(summary.ret.roi, PnlOver(PnlIndices) * 100, NumWith({"won", "lost"}))

\* one win among three closed trades, one of them with a null pnl
C22_Witness ==
    /\ summary.called
    /\ NumWith({"won"}) = 1 /\ NumWith({"lost"}) = 2
    /\ Cardinality(PnlIndices) = 2
    /\ summary.ret.total_pnl # 0

(* C23: for every ledger state, including one with no closed trade, the     *)
(* record summary() returns has all seven fields total_trades, open_trades, *)
(* closed_trades, wins, win_rate, total_pnl and roi.                        *)
C23_SummaryHasSevenFields ==
    summary.called =>
       DOMAIN summary.ret = {"total_trades", "open_trades", "closed_trades", "wins",
                             "win_rate", "total_pnl", "roi"}

(* C24: a missing or unparseable store is treated as no prior state and is  *)
(* never fatal: with the ledger file or the heartbeat file absent or not    *)
(* JSON, record, summary, due and mark_done complete without raising and    *)
(* behave as on an empty store.                                             *)
C24_MissingStoreIsEmptyStore ==
    /\ [](\A kind \in {"missing", "invalid"}, f \in {MissingFile, InvalidFile}, task \in Tasks :
            /\ get_performance_summary(load_portfolio(kind, ledger)) = get_performance_summary(<<>>)
            /\ time_since_last(f, task, now) = time_since_last(save_heartbeat(NoData), task, now)
            /\ update_heartbeat(f, task, now) = update_heartbeat(save_heartbeat(NoData), task, now))
    /\ [][(store \in {"missing", "invalid"} /\ call'.exc # "nocall")
             => /\ call'.exc = "none"
                /\ call'.before = <<>>
                /\ store' = "list"
                /\ ledger' = <<NewTrade(call'.market, call'.position, call'.confidence)>>]_vars

(* C28: a trade's status only moves open to won or open to lost: no         *)
(* operation changes a won or lost trade back to open or to the other       *)
(* closed status, and exit price, pnl and resolution date are set at most   *)
(* once and never while the status is open.                                 *)
C28_StatusOneWay ==
    /\ [](\A k \in 1..Len(ledger) :
            ledger[k].status = "open" =>
               (ledger[k].exit_price.null /\ ledger[k].pnl.null /\ ledger[k].resolved_date = None))
    /\ [][\A k \in 1..Len(ledger) :
            /\ k <= Len(ledger')
            /\ ledger[k].status # "open" => ledger'[k].status = ledger[k].status
            /\ ~ledger[k].exit_price.null => ledger'[k].exit_price = ledger[k].exit_price
            /\ ~ledger[k].pnl.null => ledger'[k].pnl = ledger[k].pnl
            /\ ledger[k].resolved_date # None => ledger'[k].resolved_date = ledger[k].resolved_date]_vars

\* a trade was appended to a ledger that holds a won and a lost trade, which are unchanged
C28_Witness ==
    /\ call.added
    /\ Len(call.before) = 2 /\ Len(ledger) = 3
    /\ ledger[1] = call.before[1] /\ ledger[1].status = "lost"
    /\ ledger[2] = call.before[2] /\ ledger[2].status = "won"
    /\ ledger[3].status = "open"

\* a channel credential or every analyzer key is not set
RequiredMissing ==
    \/ "TELEGRAM_BOT_TOKEN" \notin config
    \/ "TELEGRAM_CHANNEL_ID" \notin config
    \/ config \cap {"OPENROUTER_API_KEY", "GEMINI_API_KEY"} = {}

(* C25: when required configuration is missing, run_scan reports it and     *)
(* returns without fetching markets, calling the analyzer, touching the     *)
(* ledger or sending a notification, and does not raise, so later           *)
(* scheduled runs are not crashed.                                          *)
C25_MissingConfigurationStopsScanQuietly ==
    RequiredMissing =>
       /\ scan \in {"none", "config_missing"}
       /\ pc = "idle"
       /\ markets = <<>> /\ events = <<>>
       /\ ledger = ledger0 /\ call = NoCall
       /\ alerts_sent = 0
       /\ sched # "crashed"

\* a scheduled scan, after the immediate one, stopped at the missing configuration
C25_Witness ==
    /\ RequiredMissing
    /\ sched = "job" /\ due >= 1
    /\ scan = "config_missing"

(* C26: every market the data source returns has as many outcomes as        *)
(* prices: a listing whose two lists differ in length is rejected by the    *)
(* parsing step and is not in the batch.                                    *)
C26_OutcomesMatchPrices ==
    /\ \A k \in 1..Len(markets) :
          Len(markets[k].outcomes) = Len(markets[k].outcome_prices)
    /\ Len(markets) =
          Cardinality({k \in 1..Len(feed) :
              /\ feed[k].outcomes.kind # "notjson" /\ feed[k].outcomePrices.kind # "notjson"
              /\ \A j \in 1..Len(feed[k].outcomePrices.val) : feed[k].outcomePrices.val[j].ok
              /\ Len(feed[k].outcomes.val) = Len(feed[k].outcomePrices.val)})

ReportedBelow(score, n) ==
    \/ score.kind \in {"int", "digits"} /\ score.val < n
    \/ score.kind = "float" /\ score.val < 10 * n

ReportedAbove(score, n) ==
    \/ score.kind \in {"int", "digits"} /\ score.val > n
    \/ score.kind = "float" /\ score.val > 10 * n

\* analyze_market returned an EdgeAnalysis for the last answer
AnalysisReturned == response.backend # "none" /\ analysis # NoAnalysis

(* C29: every EdgeAnalysis the analyzer returns, parsed or synthetic, has a *)
(* confidence_score in 1..10; a reported score below 1 gives 1, one above   *)
(* 10 gives 10, and a missing one gives 5.                                  *)
C29_ConfidenceClamped ==
    AnalysisReturned =>
       /\ analysis.confidence_score \in MinConfidence..MaxConfidence
       /\ ~analysis.synthetic =>
             /\ ReportedBelow(response.resp.score, MinConfidence) =>
                   analysis.confidence_score = MinConfidence
             /\ ReportedAbove(response.resp.score, MaxConfidence) =>
                   analysis.confidence_score = MaxConfidence
             /\ response.resp.score.kind = "missing" =>
                   analysis.confidence_score = DefaultConfidence

C29_Witness ==
    /\ AnalysisReturned /\ ~analysis.synthetic
    /\ response.backend = "openrouter"
    /\ response.resp.score.kind = "float"
    /\ response.resp.score.val > 10 * MaxConfidence
    /\ analysis.confidence_score = MaxConfidence

NumSegments(bar, x) == Cardinality({k \in 1..Len(bar) : bar[k] = x})

BarIsRight(bar, c) ==
    /\ Len(bar) = 5
    /\ NumSegments(bar, "filled") = c \div 2
    /\ NumSegments(bar, "empty") = 5 - (c \div 2)
    /\ \A k \in 1..Len(bar) : (bar[k] = "filled") = (k <= c \div 2)

(* C30: for a confidence score c in 1..10, the bar of each alert format has *)
(* exactly 5 segments: floor(c/2) filled ones, then 5 - floor(c/2) empty.   *)
C30_ConfidenceBar ==
    bars.score \in 1..10 =>
       /\ BarIsRight(bars.alert, bars.score)
       /\ BarIsRight(bars.moltbook, bars.score)
       /\ BarIsRight(bars.telegram, bars.score)

C30_Witness ==
    /\ bars.score = 7
    /\ bars.telegram = <<"filled", "filled", "filled", "empty", "empty">>

\* the steps analyze_and_alert takes for one market, in the order of its source lines
StepRank(op) ==
    CASE op = "analyze" -> 1
      [] op = "add_trade" -> 2
      [] op = "dm" -> 3
      [] op = "telegram" -> 4
      [] op = "moltbook" -> 5
      [] OTHER -> 0

StepIdx == {k \in EventIdx : StepRank(events[k].op) > 0}

(* C31: processing is strictly sequential: the steps of a market occur in   *)
(* the order analyze, ledger record, peer DM (only with a peer configured), *)
(* primary send, secondary post, each after the ones before it, and every   *)
(* step of market i is over before the analyzer is called for market i+1.   *)
C31_StrictlySequential ==
    /\ \A j, k \in StepIdx :
          j < k =>
             \/ events[j].idx < events[k].idx
             \/ /\ events[j].idx = events[k].idx
                /\ StepRank(events[j].op) < StepRank(events[k].op)
    /\ \A idx \in BatchIdx :
          /\ Did("add_trade", idx) => Admissible(idx)
          /\ Did("dm", idx) => args.ask_peer /\ Did("add_trade", idx)
          /\ Did("telegram", idx) =>
                Did("add_trade", idx) /\ (args.ask_peer => Did("dm", idx))
          /\ Did("moltbook", idx) => Did("telegram", idx)
    /\ pc = "head" => \A k \in EventIdx : events[k].idx < i

\* the five steps were taken for the first market before the second was analyzed
C31_Witness ==
    /\ Len(events) >= 6
    /\ events[1].op = "analyze" /\ events[2].op = "add_trade" /\ events[3].op = "dm"
    /\ events[4].op = "telegram" /\ events[5].op = "moltbook"
    /\ \A k \in 1..5 : events[k].idx = 1
    /\ \E k \in EventIdx : events[k].op = "analyze" /\ events[k].idx = 2

\* the run is over: analyze_and_alert returned or an exception left it
RunEnded == pc = "idle" /\ scan \in {"complete", "raised"}

\* a channel notification was attempted for market idx
Notified(idx) == Did("telegram", idx) \/ Did("moltbook", idx)

OneAppended(old, new) ==
    /\ Len(new) = Len(old) + 1
    /\ \A k \in 1..Len(old) : new[k] = old[k]
    /\ new[Len(new)].status = "open"
    /\ new[Len(new)].exit_price = Null
    /\ new[Len(new)].pnl = Null
    /\ new[Len(new)].resolved_date = None

(* C33: a record call leaves the ledger as it is or appends exactly one     *)
(* trade at the end, open and with null exit price, pnl and resolution      *)
(* date; it never modifies, reorders or removes a stored trade; summary()   *)
(* never changes the ledger.                                                *)
C33_RecordAppendsOrLeaves ==
    [][\/ ledger' = ledger /\ store' = store
       \/ /\ call' # call /\ summary' = summary
          /\ store' = "list" /\ OneAppended(StoredTrades, ledger')]_vars

\* a trade was appended behind settled trades, and the summary was taken afterwards
C33_Witness ==
    /\ call.added /\ Len(call.before) = 2
    /\ OneAppended(call.before, ledger)
    /\ summary.called /\ summary.ret.total_trades = 3

\* market idx is alert-worthy in this scan and had an open trade when the scan began
WorthyWithOpenTrade(idx) == Admissible(idx) /\ OpenCount(ledger0, markets[idx].id) >= 1

FailedPoll ==
    /\ beat.op = "run_moltbook_heartbeat" /\ beat.polled
    /\ \A n \in CheckNames : beat.checks[n] \in {"failed", "skipped"}

(* C35: when moltbook_check is due, run_moltbook_heartbeat marks it done    *)
(* after the three checks whatever their results, also when every check     *)
(* was skipped for lack of an API key; a failed polling is therefore not    *)
(* repeated before 4 hours have passed.                                     *)
C35_FailedPollIsMarkedDone ==
    /\ [](beat.op = "run_moltbook_heartbeat" =>
            /\ beat.polled = Due(beat.before, "moltbook_check", beat.at)
            /\ beat.polled =>
                  /\ HasTime(hb, "moltbook_check")
                  /\ TimeOf(hb, "moltbook_check") >= beat.at
                  /\ TimeOf(hb, "moltbook_check") <= now)
    /\ [][(FailedPoll /\ now' < TimeOf(hb, "moltbook_check") + HeartbeatInterval)
             => polls' = polls]_vars

\* without an API key a polling skipped its three checks, the task was marked, and
\* an invocation three hours after that polling found it not due
C35_Witness ==
    /\ "MOLTBOOK_API_KEY" \notin config
    /\ beat.op = "run_moltbook_heartbeat" /\ ~beat.polled
    /\ beat.hours = Hours(HeartbeatInterval - 1)
    /\ Len(polls) >= 1 /\ polls[Len(polls)] = beat.at - (HeartbeatInterval - 1)
    /\ hb.data["moltbook_check"] = isoformat(polls[Len(polls)])

\* the process has executed line 289
ScanMarked == beat.op = "update_heartbeat" /\ beat.task = "market_scan"

(* C36: a --once invocation sets the market_scan heartbeat to the current   *)
(* time after run_scan returned, whatever the scan did: also when it        *)
(* stopped early for missing configuration, a failed fetch or an empty      *)
(* market list.                                                             *)
C36_OnceMarksScan ==
    /\ [](ScanMarked =>
            /\ hb = save_heartbeat([load_heartbeat(beat.before) EXCEPT
                                       !["market_scan"] = isoformat(beat.at)])
            /\ beat.at <= now
            /\ pc = "idle" /\ scan \in {"config_missing", "fetch_failed", "no_markets",
                                        "complete"})
    /\ \A outcome \in {"config_missing", "fetch_failed", "no_markets", "complete"} :
          (pc = "idle" /\ scan = outcome) ~> ScanMarked
    /\ [][hb' # hb => ScanMarked']_vars

\* a scan that stopped for missing configuration, some hours into the process, was
\* followed by the mark, which replaced an older one
C36_Witness ==
    /\ ScanMarked /\ scan = "config_missing"
    /\ beat.at > StartClock
    /\ beat.before.kind = "dict" /\ beat.before.data["market_scan"] = isoformat(0)
    /\ hb.data["market_scan"] = isoformat(beat.at)
    /\ hb.data["moltbook_check"] = isoformat(1)

(* C37: on a ledger file that exists but cannot be parsed, a record call    *)
(* loads nothing and saves a ledger that holds the new trade alone, which   *)
(* discards whatever the file held; summary() leaves such a file as it is.  *)
C37_UnparseableLedgerIsReplaced ==
    [][store = "invalid" =>
          IF summary' # summary
          THEN store' = "invalid" /\ ledger' = ledger
          ELSE /\ call'.before = <<>>
               /\ store' = "list"
               /\ ledger' = <<NewTrade(call'.market, call'.position, call'.confidence)>>]_vars

(* C38: when the fetch raises or returns an empty list, run_scan calls the  *)
(* analyzer for no market, changes nothing in the ledger, sends no          *)
(* notification, and returns to its caller without an exception.            *)
C38_FailedFetchEndsScanQuietly ==
    scan \in {"fetch_failed", "no_markets"} =>
       /\ pc = "idle"
       /\ markets = <<>> /\ events = <<>>
       /\ analysis = NoAnalysis
       /\ call = NoCall
       /\ ledger = ledger0
       /\ alerts_sent = 0
       /\ sched # "crashed"

\* a scheduled scan whose fetch failed returned, and the scheduler waits for the
\* next interval with the ledger as it was
C38_Witness ==
    /\ scan = "fetch_failed"
    /\ sched = "loop" /\ due = 1
    /\ Len(ledger) = 2 /\ ledger = ledger0

====
